---- MODULE Spec2Model ----
(***************************************************************************)
(* avkeys: keybind expressions, the keycode registry generated by the      *)
(* keycodes! macro, key parameters, and the AvKeybind attribute macro.     *)
(*                                                                         *)
(* Conventions: Option<T> is a sequence of length at most one (None is     *)
(* <<>>, Some(v) is <<v>>); a call that may panic yields Ok(v) or          *)
(* Panic(msg).                                                             *)
(***************************************************************************)
EXTENDS Integers, Sequences, FiniteSets, TLC

VARIABLES
    call,          \* the latest library call (eq / value / lookup_const) and its outcome
    defs,          \* the definitions handed to keycodes!
    build,         \* outcome of compiling the keycodes! expansion: "none", "ok", "error"
    pc,            \* position of the AvKeybind expansion
    attrs,         \* attribute tokens of #[AvKeybind(...)]
    sig,           \* typed-path parameters of the callback: <<[name, ty]>>
    keybind,       \* ParsedKeybind: the sequence of ParsedKey
    diag,          \* diagnostics returned by the expansion
    assignments,   \* generated  let <arg> = __params__[i];  statements
    emitted,       \* generated elements of the default-keys constant
    default_keys,  \* the default-keys constant as compiled: one AvKey per element
    instance       \* a value of the generated struct: None, or Some(its field .0)

vars == <<call, defs, build, pc, attrs, sig, keybind, diag, assignments, emitted,
          default_keys, instance>>

None == <<>>
Some(v) == <<v>>
Ok(v) == [ok |-> TRUE, val |-> v]
Panic(msg) == [ok |-> FALSE, err |-> msg]

\* Largest key code drawn as an input of eq / value.
MaxKeyCode == 89

KeyCodes == 0 .. MaxKeyCode

(***************************************************************************)
(* key.rs: AvKey and AvKeyParameter                                        *)
(***************************************************************************)
Key(c) == [tag |-> "Key", code |-> c]
Parameter(p) == [tag |-> "Parameter", param |-> p]

AvKeyParameter == {"DigitKey", "FunctionKey"}

AvKey == {Key(c) : c \in KeyCodes} \cup {Parameter(p) : p \in AvKeyParameter}

\* Number Keys:  0   1  2  3  4  5  6  7  8   9
DIGIT_KEYS == <<11, 2, 3, 4, 5, 6, 7, 8, 9, 10>>
\* Function Keys:  F1 .. F12
FUNCTION_KEYS == <<59, 60, 61, 62, 63, 64, 65, 66, 67, 68, 87, 88>>

keys(self) ==
    CASE self = "DigitKey" -> DIGIT_KEYS
      [] self = "FunctionKey" -> FUNCTION_KEYS

\* slice.contains(x)
contains(s, x) == \E i \in 1 .. Len(s) : s[i] = x

\* s.iter().enumerate().find(|(_, k)| **k == key).map(|(i, _)| i): the 0-based
\* index of the first element equal to key.
find_index(s, key) ==
    LET hits == {i \in 1 .. Len(s) : s[i] = key}
    IN  IF hits = {} THEN None
        ELSE Some((CHOOSE i \in hits : \A j \in hits : i <= j) - 1)

\* value without the function keys' offset of one.
value_zero_indexed(self, key) ==
    find_index(keys(self), key)

\* value with a code outside the kind's codes given an ordinal.
value_total(self, key) ==
    LET r == find_index(keys(self), key)
    IN  IF r = None THEN Some(0)
        ELSE IF self = "FunctionKey" THEN Some(r[1] + 1) ELSE r

\* AvKeyParameter::value: the ordinal of a code among the kind's codes.
value(self, key) ==
    CASE self = "DigitKey" -> find_index(DIGIT_KEYS, key)
      [] self = "FunctionKey" ->
            LET r == find_index(FUNCTION_KEYS, key)
            IN  IF r = None THEN None ELSE Some(r[1] + 1)

\* eq with the (Parameter, Key) arm never a member.
eq_one_sided(self, other) ==
    CASE self.tag = "Key" /\ other.tag = "Key" -> Ok(self.code = other.code)
      [] self.tag = "Parameter" /\ other.tag = "Parameter" -> Panic("not implemented")
      [] self.tag = "Key" /\ other.tag = "Parameter" -> Ok(contains(keys(other.param), self.code))
      [] self.tag = "Parameter" /\ other.tag = "Key" -> Ok(FALSE)

\* eq as a derived, structural comparison of two parameters.
eq_derived(self, other) ==
    CASE self.tag = "Key" /\ other.tag = "Key" -> Ok(self.code = other.code)
      [] self.tag = "Parameter" /\ other.tag = "Parameter" -> Ok(self.param = other.param)
      [] self.tag = "Key" /\ other.tag = "Parameter" -> Ok(contains(keys(other.param), self.code))
      [] self.tag = "Parameter" /\ other.tag = "Key" -> Ok(contains(keys(self.param), other.code))

\* impl PartialEq for AvKey; unimplemented!() panics.
eq(self, other) ==
    CASE self.tag = "Key" /\ other.tag = "Key" -> Ok(self.code = other.code)
      [] self.tag = "Parameter" /\ other.tag = "Parameter" -> Panic("not implemented")
      [] self.tag = "Key" /\ other.tag = "Parameter" -> Ok(contains(keys(other.param), self.code))
      [] self.tag = "Parameter" /\ other.tag = "Key" -> Ok(contains(keys(self.param), other.code))

(***************************************************************************)
(* keycode.rs: definitions parsed by keycodes!                             *)
(***************************************************************************)
Ident(s) == [kind |-> "Ident", text |-> s]
LitInt(n) == [kind |-> "LitInt", value |-> n]
LitChar(c) == [kind |-> "LitChar", ch |-> c]

\* impl ToString for KeyIdentifier
KeyIdentifier_to_string(a) ==
    CASE a.kind = "LitInt" -> ToString(a.value)
      [] a.kind = "Ident" -> a.text
      [] a.kind = "LitChar" -> a.ch

\* One ParseKeyCodeDefinition: <primary> => <value> [match [<aliases>]]
Definition(primary, code, als) == [primary |-> primary, value |-> code, aliases |-> als]
Def(name, code, als) == Definition(Ident(name), code, als)

\* ParseKeyCodeDefinition::code
code(k) == k.value

\* ParseKeyCodeDefinition::primary
primary(k) == k.primary

\* ParseKeyCodeDefinition::aliases: the match list, then the primary.
aliases(k) == k.aliases \o <<k.primary>>

\* The rows of the keycodes! table of src/lib.rs.  The grave accent char is
\* written by its code point, "U+0060".
ShippedEntries == <<
    Def("Escape", 1, <<Ident("Esc")>>),
    Def("Digit1", 2, <<LitChar("1"), Ident("Dig1")>>),
    Def("Digit2", 3, <<LitChar("2"), Ident("Dig2")>>),
    Def("Digit3", 4, <<LitChar("3"), Ident("Dig3")>>),
    Def("Digit4", 5, <<LitChar("4"), Ident("Dig4")>>),
    Def("Digit5", 6, <<LitChar("5"), Ident("Dig5")>>),
    Def("Digit6", 7, <<LitChar("6"), Ident("Dig6")>>),
    Def("Digit7", 8, <<LitChar("7"), Ident("Dig7")>>),
    Def("Digit8", 9, <<LitChar("8"), Ident("Dig8")>>),
    Def("Digit9", 10, <<LitChar("9"), Ident("Dig9")>>),
    Def("Digit0", 11, <<LitChar("0"), Ident("Dig0")>>),
    Def("Minus", 12, <<LitChar("-")>>),
    Def("Equal", 13, <<LitChar("=")>>),
    Def("Backspace", 14, <<>>),
    Def("Tab", 15, <<LitChar("↹")>>),
    Def("Q", 16, <<>>),
    Def("W", 17, <<>>),
    Def("E", 18, <<>>),
    Def("R", 19, <<>>),
    Def("T", 20, <<>>),
    Def("Y", 21, <<>>),
    Def("U", 22, <<>>),
    Def("I", 23, <<>>),
    Def("O", 24, <<>>),
    Def("P", 25, <<>>),
    Def("LeftBrace", 26, <<LitChar("[")>>),
    Def("RightBrace", 27, <<LitChar("]")>>),
    Def("Enter", 28, <<>>),
    Def("LeftCtrl", 29, <<Ident("Ctrl")>>),
    Def("A", 30, <<>>),
    Def("S", 31, <<>>),
    Def("D", 32, <<>>),
    Def("F", 33, <<>>),
    Def("G", 34, <<>>),
    Def("H", 35, <<>>),
    Def("J", 36, <<>>),
    Def("K", 37, <<>>),
    Def("L", 38, <<>>),
    Def("Semicolon", 39, <<LitChar(";")>>),
    Def("Apostrophe", 40, <<LitChar("'")>>),
    Def("Grave", 41, <<LitChar("U+0060")>>),
    Def("LeftShift", 42, <<Ident("Shift")>>),
    Def("BackSlash", 43, <<>>),
    Def("Z", 44, <<>>),
    Def("X", 45, <<>>),
    Def("C", 46, <<>>),
    Def("V", 47, <<>>),
    Def("B", 48, <<>>),
    Def("N", 49, <<>>),
    Def("M", 50, <<>>),
    Def("Comma", 51, <<LitChar(",")>>),
    Def("Dot", 52, <<LitChar(".")>>),
    Def("Slash", 53, <<LitChar("/")>>),
    Def("RightShift", 54, <<>>),
    Def("KeyPadAsterisk", 55, <<>>),
    Def("LeftAlt", 56, <<Ident("Alt")>>),
    Def("Space", 57, <<>>),
    Def("CapsLock", 58, <<>>),
    Def("F1", 59, <<>>),
    Def("F2", 60, <<>>),
    Def("F3", 61, <<>>),
    Def("F4", 62, <<>>),
    Def("F5", 63, <<>>),
    Def("F6", 64, <<>>),
    Def("F7", 65, <<>>),
    Def("F8", 66, <<>>),
    Def("F9", 67, <<>>),
    Def("F10", 68, <<>>),
    Def("NumLock", 69, <<>>),
    Def("ScrollLock", 70, <<>>),
    Def("KeyPad7", 71, <<>>),
    Def("KeyPad8", 72, <<>>),
    Def("KeyPad9", 73, <<>>),
    Def("KeyPadMinus", 74, <<>>),
    Def("KeyPad4", 75, <<>>),
    Def("KeyPad5", 76, <<>>),
    Def("KeyPad6", 77, <<>>),
    Def("KeyPadPlus", 78, <<>>),
    Def("KeyPad1", 79, <<>>),
    Def("KeyPad2", 80, <<>>),
    Def("KeyPad3", 81, <<>>),
    Def("KeyPad0", 82, <<>>),
    Def("KeyPadDot", 83, <<>>),
    Def("F11", 87, <<>>),
    Def("F12", 88, <<>>),
    Def("KeyPadEnter", 96, <<>>),
    Def("RightCtrl", 97, <<>>),
    Def("KeyPadSlash", 98, <<>>),
    Def("SysRq", 99, <<>>),
    Def("RightAlt", 100, <<>>),
    Def("Home", 102, <<>>),
    Def("UpArrow", 103, <<>>),
    Def("PageUp", 104, <<>>),
    Def("LeftArrow", 105, <<>>),
    Def("RightArrow", 106, <<>>),
    Def("End", 107, <<>>),
    Def("DownArrow", 108, <<>>),
    Def("PageDown", 109, <<>>),
    Def("Insert", 110, <<>>),
    Def("Delete", 111, <<>>),
    Def("Macro", 112, <<>>),
    Def("Mute", 113, <<>>),
    Def("VolumeDown", 114, <<>>),
    Def("VolumeUp", 115, <<>>),
    Def("Power", 116, <<>>),
    Def("KeyPadEqual", 117, <<>>),
    Def("KeyPadPlusMinus", 118, <<>>),
    Def("Pause", 119, <<>>),
    Def("KeyPadComma", 121, <<>>),
    Def("LeftMeta", 125, <<Ident("Meta"), Ident("Logo"), Ident("Win")>>),
    Def("RightMeta", 126, <<>>),
    Def("Help", 138, <<>>),
    Def("Menu", 139, <<>>),
    Def("Sleep", 142, <<>>),
    Def("Wakeup", 143, <<>>),
    Def("RotateDisplay", 153, <<Ident("Direction")>>),
    Def("NextSong", 163, <<>>),
    Def("PlayPause", 164, <<>>),
    Def("PreviousSong", 165, <<>>),
    Def("BrightnessDown", 224, <<>>),
    Def("BrightnessUp", 225, <<>>)
>>

\* The table with the char of BackSlash filled in with the one of Slash.
ShippedTable_char_reused ==
    [i \in 1 .. Len(ShippedEntries) |->
        IF ShippedEntries[i].primary = Ident("BackSlash")
        THEN Def("BackSlash", 43, <<LitChar("/")>>)
        ELSE ShippedEntries[i]]

\* The registry shipped by the crate: keycodes! { ... } of src/lib.rs.
ShippedTable == ShippedEntries

\* Primary names of the registry entries, in table order.
primary_names(table) == [i \in 1 .. Len(table) |-> KeyIdentifier_to_string(primary(table[i]))]

\* The code of the table entry whose primary name is `name`.
code_of_entry(table, name) ==
    code(table[CHOOSE i \in 1 .. Len(table) : primary_names(table)[i] = name])

(***************************************************************************)
(* macros/lib.rs: the expansion of keycodes! and the code it generates     *)
(***************************************************************************)
\* aliases.filter(|a| a is of `kind`), order kept.
RECURSIVE of_kind(_, _)
of_kind(s, kind) ==
    IF s = <<>> THEN <<>>
    ELSE (IF Head(s).kind = kind THEN <<Head(s)>> ELSE <<>>) \o of_kind(Tail(s), kind)

\* The variants one definition adds to enum Key: its identifier aliases.
variants(k) ==
    LET idents == of_kind(aliases(k), "Ident")
    IN  [i \in 1 .. Len(idents) |-> idents[i].text]

\* `definitions`: one variant of enum Key per identifier alias (primary included).
\* A flat_map over the table is kept as the sequence of its per-definition
\* groups; the flattened order is group by group.
definitions(table) == [i \in 1 .. Len(table) |-> variants(table[i])]

\* The closures of lookup_str / lookup_ints / lookup_chars panic on a primary
\* that is no identifier.
primary_is_ident(table) == \A i \in 1 .. Len(table) : primary(table[i]).kind = "Ident"

\* str_arms without the primary name.
str_arms_match_list_only(k) ==
    [i \in 1 .. Len(k.aliases) |->
        [pat |-> KeyIdentifier_to_string(k.aliases[i]), key |-> primary(k).text]]

\* The arms one definition adds to the Str match: every alias, as a string.
str_arms(k) ==
    [i \in 1 .. Len(aliases(k)) |->
        [pat |-> KeyIdentifier_to_string(aliases(k)[i]), key |-> primary(k).text]]

\* `lookup_str`: one arm  b"<alias as a string>" => Some(Self::<primary>)  per
\* alias of any kind.
lookup_str(table) == [i \in 1 .. Len(table) |-> str_arms(table[i])]

int_arms(k) ==
    LET ints == of_kind(aliases(k), "LitInt")
    IN  [i \in 1 .. Len(ints) |-> [pat |-> ints[i].value, key |-> primary(k).text]]

\* `lookup_ints`: one arm  <int> => Some(Self::<primary>)  per integer alias.
lookup_ints(table) == [i \in 1 .. Len(table) |-> int_arms(table[i])]

char_arms(k) ==
    LET chars == of_kind(aliases(k), "LitChar")
    IN  [i \in 1 .. Len(chars) |-> [pat |-> chars[i].ch, key |-> primary(k).text]]

\* `lookup_chars`: one arm  <char> => Some(Self::<primary>)  per char alias.
lookup_chars(table) == [i \in 1 .. Len(table) |-> char_arms(table[i])]

ident_arms(k) ==
    LET idents == of_kind(aliases(k), "Ident")
    IN  [i \in 1 .. Len(idents) |-> [pat |-> idents[i].text, key |-> code(k)]]

\* `ident_lookups`: one arm  Key::<ident> => <code>  per identifier alias.
ident_lookups(table) == [i \in 1 .. Len(table) |-> ident_arms(table[i])]

\* A Rust match: the first arm whose pattern equals the scrutinee; `_ => None`.
min_of(S) == CHOOSE i \in S : \A j \in S : i <= j

match_arms(arms, x) ==
    LET hits(i) == {j \in 1 .. Len(arms[i]) : arms[i][j].pat = x}
        groups == {i \in 1 .. Len(arms) : hits(i) # {}}
    IN  IF groups = {} THEN None
        ELSE Some(arms[min_of(groups)][min_of(hits(min_of(groups)))].key)

\* AvKeyDiscrim
Discrim_Str(s) == [d |-> "Str", s |-> s]
Discrim_Char(c) == [d |-> "Char", c |-> c]
Discrim_Int(i) == [d |-> "Int", i |-> i]

\* lookup_const with every discriminant matched by its spelling.
lookup_const_by_spelling(table, a) ==
    CASE a.d = "Str" -> match_arms(lookup_str(table), a.s)
      [] a.d = "Int" -> match_arms(lookup_str(table), ToString(a.i))
      [] a.d = "Char" -> match_arms(lookup_str(table), a.c)

\* Key::lookup_const of the generated impl: Option<Key>, a Key being the name
\* of its variant.
lookup_const(table, a) ==
    CASE a.d = "Str" -> match_arms(lookup_str(table), a.s)
      [] a.d = "Int" -> match_arms(lookup_ints(table), a.i)
      [] a.d = "Char" -> match_arms(lookup_chars(table), a.c)

\* impl From<Key> for KeyCode of the generated code; every variant has an arm.
Key_into_KeyCode(table, variant) == match_arms(ident_lookups(table), variant)[1]

\* impl Into<AvKey> for Key
Key_into_AvKey(table, variant) == Key(Key_into_KeyCode(table, variant))

\* Two variants of one name (E0428), in one group or in two.
has_duplicates(groups) ==
    \E i \in 1 .. Len(groups), j \in 1 .. Len(groups) :
        \E m \in 1 .. Len(groups[i]), n \in 1 .. Len(groups[j]) :
            /\ (i < j \/ (i = j /\ m < n))
            /\ groups[i][m] = groups[j][n]

\* Outcome of keycodes! and of compiling what it generates: the expansion
\* panics on a primary that is no identifier, and an enum with two variants of
\* one name does not compile.  Repeated match patterns do compile: the later
\* arm is unreachable.
keycodes(table) ==
    IF ~primary_is_ident(table) THEN "error"
    ELSE IF has_duplicates(definitions(table)) THEN "error"
    ELSE "ok"

(***************************************************************************)
(* macros/key.rs: parsing a keybind expression                             *)
(***************************************************************************)
\* Token trees of the attribute: identifiers, literals, punctuation and
\* delimited groups.  Literal and identifier tokens have the shape of the
\* KeyIdentifier / ParsedKeyDisc variants.
Punct(p) == [kind |-> "Punct", p |-> p]
Bracket(inside) == [kind |-> "Bracket", inside |-> inside]
Brace(inside) == [kind |-> "Brace", inside |-> inside]

\* Key parameters and their short codes.
KEY_PARAMS == [d |-> "DigitKey", f |-> "FunctionKey"]

\* KEY_PARAMS.get(tag)
KEY_PARAMS_get(tag) == IF tag \in DOMAIN KEY_PARAMS THEN Some(KEY_PARAMS[tag]) ELSE None

\* enum ParsedKey
Name(disc) == [k |-> "Name", disc |-> disc]
Code(int) == [k |-> "Code", int |-> int]
ParameterTerm(ident) == [k |-> "Parameter", ident |-> ident]

ParseOk(v) == [ok |-> TRUE, val |-> v]
ParseErr(msg) == [ok |-> FALSE, err |-> msg]

\* parse_term with a top-level integer taken as a code.
parse_term_bare_int_as_code(input, at) ==
    IF at > Len(input) THEN ParseErr("Expected either a Name; Code; Key Parameter")
    ELSE LET t == input[at]
         IN  CASE t.kind = "Bracket" ->
                    IF t.inside = <<>> \/ t.inside[1].kind # "LitInt"
                    THEN ParseErr("Expected a key code here")
                    ELSE IF Len(t.inside) > 1 THEN ParseErr("unexpected token")
                    ELSE ParseOk(Code(t.inside[1].value))
               [] t.kind = "Brace" ->
                    IF t.inside = <<>> \/ t.inside[1].kind # "Ident"
                    THEN ParseErr("Expected a key parameter here")
                    ELSE IF Len(t.inside) > 1 THEN ParseErr("unexpected token")
                    ELSE ParseOk(ParameterTerm(t.inside[1].text))
               [] t.kind = "LitInt" -> ParseOk(Code(t.value))
               [] t.kind = "Ident" -> ParseOk(Name(t))
               [] t.kind = "LitChar" -> ParseOk(Name(t))
               [] OTHER -> ParseErr("Expected either a Name; Code; Key Parameter")

\* impl Parse for ParsedKey, on the token at position `at` of the input.  A
\* group whose parse stops before its last token leaves an unexpected-token
\* error behind, which fails the whole parse.
parse_term(input, at) ==
    IF at > Len(input) THEN ParseErr("Expected either a Name; Code; Key Parameter")
    ELSE LET t == input[at]
         IN  CASE t.kind = "Bracket" ->
                    IF t.inside = <<>> \/ t.inside[1].kind # "LitInt"
                    THEN ParseErr("Expected a key code here")
                    ELSE IF Len(t.inside) > 1 THEN ParseErr("unexpected token")
                    ELSE ParseOk(Code(t.inside[1].value))
               [] t.kind = "Brace" ->
                    IF t.inside = <<>> \/ t.inside[1].kind # "Ident"
                    THEN ParseErr("Expected a key parameter here")
                    ELSE IF Len(t.inside) > 1 THEN ParseErr("unexpected token")
                    ELSE ParseOk(ParameterTerm(t.inside[1].text))
               [] t.kind = "LitInt" -> ParseOk(Name(t))
               [] t.kind = "Ident" -> ParseOk(Name(t))
               [] t.kind = "LitChar" -> ParseOk(Name(t))
               [] OTHER -> ParseErr("Expected either a Name; Code; Key Parameter")

is_plus(input, at) == at <= Len(input) /\ input[at] = Punct("+")

\* Punctuated::parse_separated_nonempty: a term, then `+ term` while a `+`
\* follows.  Yields the terms and the position of the first token not taken.
RECURSIVE parse_separated_from(_, _, _)
parse_separated_from(input, at, acc) ==
    IF ~is_plus(input, at) THEN ParseOk([terms |-> acc, next |-> at])
    ELSE LET r == parse_term(input, at + 1)
         IN  IF ~r.ok THEN r
             ELSE parse_separated_from(input, at + 2, Append(acc, r.val))

parse_separated_nonempty(input) ==
    LET first == parse_term(input, 1)
    IN  IF ~first.ok THEN first
        ELSE parse_separated_from(input, 2, <<first.val>>)

\* parse_keybind with tokens after the last term left alone.
parse_keybind_prefix(input) ==
    LET r == parse_separated_nonempty(input)
    IN  IF ~r.ok THEN r ELSE ParseOk(r.val.terms)

\* syn::parse::<ParsedKeybind>(attrs): impl Parse for ParsedKeybind, and the
\* whole input must have been taken.
parse_keybind(input) ==
    LET r == parse_separated_nonempty(input)
    IN  IF ~r.ok THEN r
        ELSE IF r.val.next <= Len(input) THEN ParseErr("unexpected token")
        ELSE ParseOk(r.val.terms)

\* to_lookup with a Code term looked up as an integer alias.
to_lookup_code_via_registry(self) ==
    CASE self.k = "Name" /\ self.disc.kind = "Ident" ->
            Ok([gen |-> "Key::<ident>.into()", ident |-> self.disc.text])
      [] self.k = "Name" /\ self.disc.kind = "LitChar" ->
            Ok([gen |-> "Key::lookup_const(..).expect(..).into()",
                a |-> Discrim_Char(self.disc.ch)])
      [] self.k = "Name" /\ self.disc.kind = "LitInt" ->
            Ok([gen |-> "Key::lookup_const(..).expect(..).into()",
                a |-> Discrim_Int(self.disc.value)])
      [] self.k = "Code" ->
            Ok([gen |-> "Key::lookup_const(..).expect(..).into()",
                a |-> Discrim_Int(self.int)])
      [] self.k = "Parameter" ->
            IF KEY_PARAMS_get(self.ident) = None
            THEN Panic("called Option::unwrap() on a None value")
            ELSE Ok([gen |-> "<path>", path |-> KEY_PARAMS_get(self.ident)[1]])

\* ParsedKey::to_lookup: the expression generated for one term.  The parameter
\* arm unwraps KEY_PARAMS.get(..).
to_lookup(self) ==
    CASE self.k = "Name" /\ self.disc.kind = "Ident" ->
            Ok([gen |-> "Key::<ident>.into()", ident |-> self.disc.text])
      [] self.k = "Name" /\ self.disc.kind = "LitChar" ->
            Ok([gen |-> "Key::lookup_const(..).expect(..).into()",
                a |-> Discrim_Char(self.disc.ch)])
      [] self.k = "Name" /\ self.disc.kind = "LitInt" ->
            Ok([gen |-> "Key::lookup_const(..).expect(..).into()",
                a |-> Discrim_Int(self.disc.value)])
      [] self.k = "Code" -> Ok([gen |-> "<int>", int |-> self.int])
      [] self.k = "Parameter" ->
            IF KEY_PARAMS_get(self.ident) = None
            THEN Panic("called Option::unwrap() on a None value")
            ELSE Ok([gen |-> "<path>", path |-> KEY_PARAMS_get(self.ident)[1]])

\* All variants of enum Key.
Key_variants(table) ==
    UNION {{definitions(table)[i][j] : j \in 1 .. Len(definitions(table)[i])} :
              i \in 1 .. Len(table)}

\* Compiling and evaluating one generated element of the default-keys
\* constant against the generated enum Key: a name that is no variant does not
\* compile, and expect() on None panics.
eval_generated(table, g) ==
    CASE g.gen = "Key::<ident>.into()" ->
            IF g.ident \in Key_variants(table)
            THEN Ok(Key_into_AvKey(table, g.ident))
            ELSE Panic("no variant named <ident> found for enum Key")
      [] g.gen = "Key::lookup_const(..).expect(..).into()" ->
            IF lookup_const(table, g.a) = None
            THEN Panic("Could not find <alias> in key aliases list.")
            ELSE Ok(Key_into_AvKey(table, lookup_const(table, g.a)[1]))
      [] g.gen = "<int>" -> Ok(Key(g.int))
      [] g.gen = "<path>" -> Ok(Parameter(g.path))

(***************************************************************************)
(* macros/key.rs: validation against the callback's signature              *)
(***************************************************************************)
\* One argument of the callback: its pattern and its type.
FnArg(pat, ty) == [pat |-> pat, ty |-> ty]
PatIdent(name) == [kind |-> "Ident", text |-> name]
TypePath(ident) == [kind |-> "Path", ident |-> ident]
TypeReference == [kind |-> "Reference"]

\* ParsedKeybind::parameters_present: the tags of the {tag} terms, in order.
RECURSIVE parameters_present(_)
parameters_present(self) ==
    IF self = <<>> THEN <<>>
    ELSE (IF Head(self).k = "Parameter" THEN <<Head(self).ident>> ELSE <<>>)
         \o parameters_present(Tail(self))

\* The arguments whose type is a path (FnArg::Typed with Type::Path).
RECURSIVE typed_path_args(_)
typed_path_args(inputs) ==
    IF inputs = <<>> THEN <<>>
    ELSE (IF Head(inputs).ty.kind = "Path" THEN <<Head(inputs)>> ELSE <<>>)
         \o typed_path_args(Tail(inputs))

\* The errors of a sequence of per-item results, in order.
RECURSIVE errors_of(_)
errors_of(results) ==
    IF results = <<>> THEN <<>>
    ELSE (IF Head(results).ok THEN <<>> ELSE <<Head(results).err>>)
         \o errors_of(Tail(results))

\* validate_parameter_names stopping at the first unknown tag.
validate_parameter_names_first_only(self) ==
    LET tags == parameters_present(self)
        unknown == {i \in 1 .. Len(tags) : KEY_PARAMS_get(tags[i]) = None}
    IN  IF unknown = {} THEN None
        ELSE Some(<<[msg |-> "Unknown key parameter", tag |-> tags[min_of(unknown)]]>>)

\* validate_parameter_names letting every tag through.
validate_parameter_names_unchecked(self) == None

\* ParsedKeybind::validate_parameter_names: None, or the combined error.
validate_parameter_names(self) ==
    LET tags == parameters_present(self)
        checked == [i \in 1 .. Len(tags) |->
                       IF KEY_PARAMS_get(tags[i]) = None
                       THEN ParseErr([msg |-> "Unknown key parameter", tag |-> tags[i]])
                       ELSE ParseOk(tags[i])]
    IN  IF errors_of(checked) = <<>> THEN None ELSE Some(errors_of(checked))

\* validate_func_sign_against_key_params with a tag that has no declared
\* argument let through.
validate_func_sign_ignoring_missing(self, inputs) ==
    LET params == typed_path_args(inputs)
        tags == parameters_present(self)
        results == [i \in 1 .. Len(tags) |->
            IF i <= Len(params) /\ params[i].ty.ident # None
                  /\ params[i].ty.ident[1] # tags[i]
            THEN ParseErr([msg |-> "Expected key parameter here, got",
                           expected |-> tags[i], got |-> params[i].ty.ident[1]])
            ELSE ParseOk(tags[i])]
    IN  IF errors_of(results) = <<>> THEN None ELSE Some(errors_of(results))

\* validate_func_sign_against_key_params returning its first error alone.
validate_func_sign_first_error_only(self, inputs) ==
    LET params == typed_path_args(inputs)
        tags == parameters_present(self)
        results == [i \in 1 .. Len(tags) |->
            IF i <= Len(params) /\ params[i].ty.ident # None
            THEN IF params[i].ty.ident[1] = tags[i]
                 THEN ParseOk(tags[i])
                 ELSE ParseErr([msg |-> "Expected key parameter here, got",
                                expected |-> tags[i], got |-> params[i].ty.ident[1]])
            ELSE ParseErr([msg |-> "Expected key parameter in function declaration",
                           expected |-> tags[i], key_param |-> i])]
    IN  IF errors_of(results) = <<>> THEN None ELSE Some(<<errors_of(results)[1]>>)

\* validate_func_sign_against_key_params with a declared type accepted when it
\* is any tag of the catalog.
validate_func_sign_any_catalog_type(self, inputs) ==
    LET params == typed_path_args(inputs)
        tags == parameters_present(self)
        results == [i \in 1 .. Len(tags) |->
            IF i <= Len(params) /\ params[i].ty.ident # None
            THEN IF params[i].ty.ident[1] \in DOMAIN KEY_PARAMS
                 THEN ParseOk(tags[i])
                 ELSE ParseErr([msg |-> "Expected key parameter here, got",
                                expected |-> tags[i], got |-> params[i].ty.ident[1]])
            ELSE ParseErr([msg |-> "Expected key parameter in function declaration",
                           expected |-> tags[i], key_param |-> i])]
    IN  IF errors_of(results) = <<>> THEN None ELSE Some(errors_of(results))

\* ParsedKeybind::validate_func_sign_against_key_params
validate_func_sign_against_key_params(self, inputs) ==
    LET params == typed_path_args(inputs)
        tags == parameters_present(self)
        results == [i \in 1 .. Len(tags) |->
            IF i <= Len(params) /\ params[i].ty.ident # None
            THEN IF params[i].ty.ident[1] = tags[i]
                 THEN ParseOk(tags[i])
                 ELSE ParseErr([msg |-> "Expected key parameter here, got",
                                expected |-> tags[i], got |-> params[i].ty.ident[1]])
            ELSE ParseErr([msg |-> "Expected key parameter in function declaration",
                           expected |-> tags[i], key_param |-> i])]
    IN  IF errors_of(results) = <<>> THEN None ELSE Some(errors_of(results))

\* generate_key_parameter_assignments with no check for arguments in excess.
generate_key_parameter_assignments_allowing_excess(self, inputs) ==
    LET v == typed_path_args(inputs)
    IN  ParseOk([i \in 1 .. Len(v) |-> [arg |-> v[i].pat.text, index |-> i - 1]])

\* generate_key_parameter_assignments with the ordinals counted from one.
generate_key_parameter_assignments_one_based(self, inputs) ==
    LET v == typed_path_args(inputs)
        present == Len(parameters_present(self))
    IN  IF Len(v) = 0 THEN ParseOk(<<>>)
        ELSE IF Len(v) > present
        THEN IF present = 0
             THEN ParseErr(<<[msg |-> "Unexpected extra function parameters", arg |-> 0]>>)
             ELSE ParseErr([i \in 1 .. present |->
                               [msg |-> "Excess key parameter defined here",
                                arg |-> (Len(v) - present) + i - 1]])
        ELSE ParseOk([i \in 1 .. Len(v) |-> [arg |-> v[i].pat.text, index |-> i]])

\* ParsedKeybind::generate_key_parameter_assignments: Ok(assignments) or
\* Err(errors).
generate_key_parameter_assignments(self, inputs) ==
    LET v == typed_path_args(inputs)
        present == Len(parameters_present(self))
        pats == [i \in 1 .. Len(v) |->
                    IF v[i].pat.kind = "Ident" THEN ParseOk(v[i].pat.text)
                    ELSE ParseErr([msg |-> "Expected identifier for key parameter name",
                                   arg |-> i - 1])]
    IN  IF Len(v) = 0 THEN ParseOk(<<>>)
        ELSE IF Len(v) > present
        THEN IF present = 0
             THEN ParseErr(<<[msg |-> "Unexpected extra function parameters", arg |-> 0]>>)
             ELSE ParseErr([i \in 1 .. present |->
                               [msg |-> "Excess key parameter defined here",
                                arg |-> (Len(v) - present) + i - 1]])
        ELSE IF errors_of(pats) # <<>> THEN ParseErr(errors_of(pats))
        ELSE ParseOk([i \in 1 .. Len(v) |-> [arg |-> pats[i].val, index |-> i - 1]])

(***************************************************************************)
(* State shared by the specifications                                      *)
(***************************************************************************)
NoCall == [op |-> "none"]

PipelineIdle ==
    /\ pc = "idle"
    /\ attrs = <<>>
    /\ sig = <<>>
    /\ keybind = <<>>
    /\ diag = <<>>
    /\ assignments = <<>>
    /\ emitted = <<>>
    /\ default_keys = <<>>
    /\ instance = <<>>

pipeline_vars == <<pc, attrs, sig, keybind, diag, assignments, emitted, default_keys,
                   instance>>

(***************************************************************************)
(* SpecKey: the runtime operations of key.rs.  The operations are pure, so *)
(* a behaviour draws the arguments of one call and then makes it.          *)
(***************************************************************************)
\* Result::Err
Err(e) == [ok |-> FALSE, err |-> e]

\* impl From<AvKeyParameter> for String (and ToString, which goes through it)
AvKeyParameter_into_String(p) ==
    CASE p = "DigitKey" -> "d"
      [] p = "FunctionKey" -> "f"

\* impl TryFrom<String> for AvKeyParameter
AvKeyParameter_try_from_String(v) ==
    CASE v = "d" -> Ok("DigitKey")
      [] v = "f" -> Ok("FunctionKey")
      [] OTHER -> Err(v)

\* try_from(&str) with the tag taken in either case.
AvKeyParameter_try_from_str_any_case(v) ==
    CASE v \in {"d", "D"} -> Ok("DigitKey")
      [] v \in {"f", "F"} -> Ok("FunctionKey")
      [] OTHER -> Err(v)

\* impl TryFrom<&str> for AvKeyParameter
AvKeyParameter_try_from_str(v) ==
    CASE v = "d" -> Ok("DigitKey")
      [] v = "f" -> Ok("FunctionKey")
      [] OTHER -> Err(v)

\* Tag strings handed to the conversions and to KEY_PARAMS.
TagStrings == {"d", "f", "D", "F", "q", "z", "df", "", "DigitKey", "FunctionKey"}

EqRequests ==
    {[op |-> "eq", st |-> "pending", lhs |-> x, rhs |-> y] : x \in AvKey, y \in AvKey}

TryFromRequests == {[op |-> "try_from", st |-> "pending", tag |-> t] : t \in TagStrings}

ToStringRequests == {[op |-> "to_string", st |-> "pending", self |-> p] : p \in AvKeyParameter}

\* AvKeys compared three at a time: digit keys, function keys, a key of
\* neither class, and the two classes.
ChainKeys ==
    {Key(2), Key(3), Key(11), Key(59), Key(60), Key(1),
     Parameter("DigitKey"), Parameter("FunctionKey")}

EqChainRequests ==
    {[op |-> "eq_chain", st |-> "pending", x |-> x, y |-> y, z |-> z] :
        x \in ChainKeys, y \in ChainKeys, z \in ChainKeys}

ValueRequests ==
    {[op |-> "value", st |-> "pending", self |-> p, key |-> c] :
        p \in AvKeyParameter, c \in KeyCodes}

InitKey ==
    /\ call \in EqRequests \cup ValueRequests \cup TryFromRequests \cup ToStringRequests
                \cup EqChainRequests
    /\ defs = <<>>
    /\ build = "none"
    /\ PipelineIdle

\* lhs == rhs for two AvKeys
CallEq ==
    /\ call.op = "eq" /\ call.st = "pending"
    /\ call' = [op |-> "eq", st |-> "returned", lhs |-> call.lhs, rhs |-> call.rhs,
                out |-> eq(call.lhs, call.rhs)]
    /\ UNCHANGED <<defs, build, pipeline_vars>>

\* x == y, y == z and x == z, for the equivalence that impl Eq declares
CallEqChain ==
    /\ call.op = "eq_chain" /\ call.st = "pending"
    /\ call' = [op |-> "eq_chain", st |-> "returned",
                x |-> call.x, y |-> call.y, z |-> call.z,
                xy |-> eq(call.x, call.y),
                yz |-> eq(call.y, call.z),
                xz |-> eq(call.x, call.z)]
    /\ UNCHANGED <<defs, build, pipeline_vars>>

\* self.value(key)
CallValue ==
    /\ call.op = "value" /\ call.st = "pending"
    /\ call' = [op |-> "value", st |-> "returned", self |-> call.self, key |-> call.key,
                out |-> value(call.self, call.key)]
    /\ UNCHANGED <<defs, build, pipeline_vars>>

\* The tag resolved three ways: try_from(&str), try_from(String) and
\* KEY_PARAMS.get of the macro.
CallTryFrom ==
    /\ call.op = "try_from" /\ call.st = "pending"
    /\ call' = [op |-> "try_from", st |-> "returned", tag |-> call.tag,
                str |-> AvKeyParameter_try_from_str(call.tag),
                string |-> AvKeyParameter_try_from_String(call.tag),
                macro |-> KEY_PARAMS_get(call.tag)]
    /\ UNCHANGED <<defs, build, pipeline_vars>>

\* self.to_string(), and the string converted back.
CallToString ==
    /\ call.op = "to_string" /\ call.st = "pending"
    /\ call' = [op |-> "to_string", st |-> "returned", self |-> call.self,
                out |-> AvKeyParameter_into_String(call.self),
                back |-> AvKeyParameter_try_from_str(AvKeyParameter_into_String(call.self))]
    /\ UNCHANGED <<defs, build, pipeline_vars>>

NextKey == CallEq \/ CallEqChain \/ CallValue \/ CallTryFrom \/ CallToString

SpecKey == InitKey /\ [][NextKey]_vars

returned(op) == call.op = op /\ call.st = "returned"

(***************************************************************************)
(* SpecRegistry: keycodes! applied to a table, then one lookup_const call  *)
(***************************************************************************)
\* Definitions tables are drawn from: the examples of the keycodes! doc comment
\* and definitions that reuse one of their spellings.
SampleDefinitions == {
    Def("Escape", 1, <<Ident("Esc")>>),
    Def("Digit1", 2, <<LitInt(1), LitChar("1")>>),
    Def("Digit0", 10, <<>>),
    Def("KeyPad1", 79, <<LitInt(1)>>),
    Def("One", 3, <<LitChar("1")>>),
    Def("Exit", 4, <<Ident("Esc")>>),
    Definition(LitInt(1), 5, <<>>)
}

\* Longest drawn table.
MaxDefs == 2

SampleTables == UNION {[1 .. n -> SampleDefinitions] : n \in 0 .. MaxDefs}

Tables == {ShippedTable} \cup SampleTables

all_aliases(table) == {aliases(table[i])[j] : <<i, j>> \in
                          {<<i, j>> \in (1 .. Len(table)) \X (1 .. 4) :
                              j <= Len(aliases(table[i]))}}

\* Arguments drawn for lookup_const: every spelling of the table under each
\* discriminant type it fits, and spellings the table lacks.
Discriminants(table) ==
    {Discrim_Str(KeyIdentifier_to_string(a)) : a \in all_aliases(table)}
    \cup {Discrim_Str("1"), Discrim_Str("Del")}
    \cup {Discrim_Char(a.ch) : a \in {b \in all_aliases(table) : b.kind = "LitChar"}}
    \cup {Discrim_Char("1"), Discrim_Char("x")}
    \cup {Discrim_Int(a.value) : a \in {b \in all_aliases(table) : b.kind = "LitInt"}}
    \cup {Discrim_Int(1), Discrim_Int(7)}

InitRegistry ==
    /\ call = NoCall
    /\ defs = <<>>
    /\ build = "none"
    /\ PipelineIdle

\* keycodes! { table }
Keycodes ==
    /\ build = "none"
    /\ \E table \in Tables :
          /\ defs' = table
          /\ build' = keycodes(table)
    /\ UNCHANGED <<call, pipeline_vars>>

\* Key::lookup_const(a)
CallLookupConst ==
    /\ build = "ok"
    /\ call = NoCall
    /\ \E a \in Discriminants(defs) :
          call' = [op |-> "lookup_const", st |-> "returned", a |-> a,
                   out |-> lookup_const(defs, a)]
    /\ UNCHANGED <<defs, build, pipeline_vars>>

\* Key::lookup of a string, as the tests and the Display impl call it: the
\* registry's lookup by discriminant.
Key_lookup(table, a) == lookup_const(table, a)

\* let k : AvKey = Key::lookup(s).unwrap().into();
CallLookup ==
    /\ build = "ok"
    /\ call = NoCall
    /\ \E a \in {d \in Discriminants(defs) : d.d = "Str"} :
          call' = [op |-> "lookup", st |-> "returned", a |-> a,
                   out |-> Key_lookup(defs, a),
                   into |-> IF Key_lookup(defs, a) = None
                            THEN Panic("called Option::unwrap() on a None value")
                            ELSE Ok(Key_into_AvKey(defs, Key_lookup(defs, a)[1]))]
    /\ UNCHANGED <<defs, build, pipeline_vars>>

NextRegistry == Keycodes \/ CallLookupConst \/ CallLookup

SpecRegistry == InitRegistry /\ [][NextRegistry]_vars

(***************************************************************************)
(* Spec: #[AvKeybind(attrs)] on a callback, stage by stage, against a      *)
(* registry that keycodes! built                                           *)
(***************************************************************************)
\* The example table of the keycodes! doc comment.
DocExampleTable == <<
    Def("Escape", 1, <<Ident("Esc")>>),
    Def("Digit1", 2, <<LitInt(1), LitChar("1")>>),
    Def("Digit0", 10, <<>>)
>>

PipelineTables == {ShippedTable, DocExampleTable}

\* Most terms of a drawn multi-term expression, and most key-parameter
\* arguments of a drawn callback.
MaxTerms == 3
MaxArgs == 3

\* Terms the short expressions are made of: names the shipped table has and
\* lacks, a bare integer, a char, a code, known and unknown tags, and malformed
\* terms.
CoreTerms == {
    Ident("Ctrl"), Ident("Del"), LitInt(1), LitChar("1"),
    Bracket(<<LitInt(111)>>),
    Brace(<<Ident("d")>>), Brace(<<Ident("f")>>), Brace(<<Ident("q")>>),
    Bracket(<<Ident("x")>>), Brace(<<LitInt(1)>>), Punct("-")
}

\* Terms the longer expressions are made of: a name, a bare integer, a code,
\* the two known tags and two unknown ones.
LongTerms == {
    Ident("Ctrl"), LitInt(1), Bracket(<<LitInt(111)>>),
    Brace(<<Ident("d")>>), Brace(<<Ident("f")>>), Brace(<<Ident("q")>>),
    Brace(<<Ident("z")>>)
}

\* t1 + t2 + ... + tn
joined(ts) ==
    [i \in 1 .. (2 * Len(ts) - 1) |-> IF i % 2 = 1 THEN ts[(i + 1) \div 2] ELSE Punct("+")]

\* The expressions of the documentation: Ctrl+Alt+Del and Logo+{d}.
DocExpressions == {
    joined(<<Ident("Ctrl"), Ident("Alt"), Ident("Del")>>),
    joined(<<Ident("Logo"), Brace(<<Ident("d")>>)>>)
}

\* Attribute inputs: every expression of one or two core terms and of up to
\* MaxTerms long terms; a single term for every variant of Key, every bracketed
\* code and every bare integer; and the empty, trailing-plus and unseparated
\* inputs.
AttrInputs(table) ==
    {joined(ts) : ts \in UNION {[1 .. n -> CoreTerms] : n \in 1 .. 2}}
    \cup {joined(ts) : ts \in UNION {[1 .. n -> LongTerms] : n \in 1 .. MaxTerms}}
    \cup {<<Ident(n)>> : n \in Key_variants(table)}
    \cup {<<Bracket(<<LitInt(c)>>)>> : c \in KeyCodes}
    \cup {<<LitInt(c)>> : c \in KeyCodes}
    \cup DocExpressions
    \cup {<<>>}
    \cup {<<t, Punct("+")>> : t \in CoreTerms}
    \cup {<<t, Ident("Ctrl")>> : t \in CoreTerms}
    \cup {<<Bracket(<<LitInt(111), LitInt(1)>>)>>, <<Brace(<<>>)>>, <<Bracket(<<>>)>>}

ArgNames == <<"a", "b", "c", "e">>
ArgTypes == {"d", "f"}

\* Callback signatures: the state argument, then up to MaxArgs arguments whose
\* type is a single identifier; and one whose argument has a type named as a
\* tag the catalog lacks.
Signatures ==
    {<<FnArg(PatIdent("state"), TypeReference)>>
        \o [i \in 1 .. n |-> FnArg(PatIdent(ArgNames[i]), TypePath(Some(tys[i])))] :
            <<n, tys>> \in UNION {{n} \X [1 .. n -> ArgTypes] : n \in 0 .. MaxArgs}}
    \cup {<<FnArg(PatIdent("state"), TypeReference),
             FnArg(PatIdent("a"), TypePath(Some("q")))>>}

Init ==
    /\ call = NoCall
    /\ defs \in PipelineTables
    /\ build = keycodes(defs)
    /\ PipelineIdle

\* 1. Parse Default Keybind: any parse error is replaced by the one message
\* of the attribute.
ParseAttrs ==
    /\ pc = "idle"
    /\ build = "ok"
    /\ \E input \in AttrInputs(defs) :
          /\ attrs' = input
          /\ IF parse_keybind(input).ok
             THEN /\ keybind' = parse_keybind(input).val
                  /\ diag' = diag
                  /\ pc' = "parsed"
             ELSE /\ keybind' = keybind
                  /\ diag' = <<[msg |-> "Expected a + seperated non-trailing list of keys here"]>>
                  /\ pc' = "failed"
    /\ UNCHANGED <<call, instance, defs, build, sig, assignments, emitted, default_keys>>

\* 2. Parse Implementation function (a public fn).
ParseFn ==
    /\ pc = "parsed"
    /\ \E inputs \in Signatures : sig' = inputs
    /\ pc' = "fn_parsed"
    /\ UNCHANGED <<call, instance, defs, build, attrs, keybind, diag, assignments, emitted,
                   default_keys>>

\* 2b (i) Validate Key Parameter Names
ValidateParameterNames ==
    /\ pc = "fn_parsed"
    /\ IF validate_parameter_names(keybind) = None
       THEN pc' = "names_valid" /\ diag' = diag
       ELSE pc' = "failed" /\ diag' = validate_parameter_names(keybind)[1]
    /\ UNCHANGED <<call, instance, defs, build, attrs, sig, keybind, assignments, emitted,
                   default_keys>>

\* 2b (ii) Validate Key Parameters are in function signature
ValidateFuncSign ==
    /\ pc = "names_valid"
    /\ IF validate_func_sign_against_key_params(keybind, sig) = None
       THEN pc' = "sign_valid" /\ diag' = diag
       ELSE /\ pc' = "failed"
            /\ diag' = validate_func_sign_against_key_params(keybind, sig)[1]
    /\ UNCHANGED <<call, instance, defs, build, attrs, sig, keybind, assignments, emitted,
                   default_keys>>

\* 3a. Generate key parameter bindings
GenerateAssignments ==
    /\ pc = "sign_valid"
    /\ IF generate_key_parameter_assignments(keybind, sig).ok
       THEN /\ assignments' = generate_key_parameter_assignments(keybind, sig).val
            /\ diag' = diag
            /\ pc' = "assigned"
       ELSE /\ assignments' = assignments
            /\ diag' = generate_key_parameter_assignments(keybind, sig).err
            /\ pc' = "failed"
    /\ UNCHANGED <<call, instance, defs, build, attrs, sig, keybind, emitted, default_keys>>

\* Emit with the elements in the reverse order of the terms.
Emit_reversed ==
    /\ pc = "assigned"
    /\ emitted' = [i \in 1 .. Len(keybind) |->
                      to_lookup(keybind[Len(keybind) + 1 - i]).val]
    /\ pc' = "emitted"
    /\ UNCHANGED <<call, instance, defs, build, attrs, sig, keybind, diag, assignments, default_keys>>

\* 3b. keybind.iter().map(ParsedKey::to_lookup) and the quoted output; a panic
\* of to_lookup aborts the expansion.
Emit ==
    /\ pc = "assigned"
    /\ IF \A i \in 1 .. Len(keybind) : to_lookup(keybind[i]).ok
       THEN /\ emitted' = [i \in 1 .. Len(keybind) |-> to_lookup(keybind[i]).val]
            /\ pc' = "emitted"
       ELSE /\ emitted' = emitted
            /\ pc' = "panicked"
    /\ UNCHANGED <<call, instance, defs, build, attrs, sig, keybind, diag, assignments, default_keys>>

\* rustc on the emitted default-keys constant, against the generated enum Key.
Compile ==
    /\ pc = "emitted"
    /\ IF \A i \in 1 .. Len(emitted) : eval_generated(defs, emitted[i]).ok
       THEN /\ default_keys' = [i \in 1 .. Len(emitted) |-> eval_generated(defs, emitted[i]).val]
            /\ diag' = diag
            /\ pc' = "compiled"
       ELSE /\ default_keys' = default_keys
            /\ diag' = [i \in 1 .. Len(emitted) |->
                           IF eval_generated(defs, emitted[i]).ok
                           THEN [msg |-> "ok"]
                           ELSE [msg |-> eval_generated(defs, emitted[i]).err]]
            /\ pc' = "rejected"
    /\ UNCHANGED <<call, instance, defs, build, attrs, sig, keybind, assignments, emitted>>

\* Values of the field of the generated struct, Option<Vec<AvKey>>: no
\* override, an empty one, and overrides of keys and parameters.
Overrides == {
    None,
    Some(<<>>),
    Some(<<Key(1)>>),
    Some(<<Key(29), Parameter("DigitKey")>>)
}

\* The generated default_keys(): a reference to the constant.
AvKeybind_default_keys(constant) == constant

\* keys with an empty override taken as no override.
AvKeybind_keys_unless_empty(self_0, constant) ==
    IF self_0 = None \/ self_0[1] = <<>> THEN AvKeybind_default_keys(constant) ELSE self_0[1]

\* The generated keys(): self.0.as_ref().map(|v| v.as_slice())
\*                            .unwrap_or(Self::default_keys())
AvKeybind_keys(self_0, constant) ==
    IF self_0 = None THEN AvKeybind_default_keys(constant) ELSE self_0[1]

\* A value of the generated struct is made, with or without an override.
Construct ==
    /\ pc = "compiled"
    /\ instance = None
    /\ \E o \in Overrides : instance' = Some(o)
    /\ UNCHANGED <<call, defs, build, pc, attrs, sig, keybind, diag, assignments, emitted,
                   default_keys>>

CallKeys ==
    /\ pc = "compiled"
    /\ instance # None
    /\ call' = [op |-> "keys", st |-> "returned",
                out |-> AvKeybind_keys(instance[1], default_keys)]
    /\ UNCHANGED <<instance, defs, build, pipeline_vars>>

CallDefaultKeys ==
    /\ pc = "compiled"
    /\ call' = [op |-> "default_keys", st |-> "returned",
                out |-> AvKeybind_default_keys(default_keys)]
    /\ UNCHANGED <<instance, defs, build, pipeline_vars>>

Next ==
    \/ ParseAttrs
    \/ ParseFn
    \/ ValidateParameterNames
    \/ ValidateFuncSign
    \/ GenerateAssignments
    \/ Emit
    \/ Compile
    \/ Construct
    \/ CallKeys
    \/ CallDefaultKeys

Spec == Init /\ [][Next]_vars

(***************************************************************************)
(* Claims                                                                  *)
(***************************************************************************)
\* The set of codes of a parameter kind's code sequence.
members(k) == {keys(k)[i] : i \in 1 .. Len(keys(k))}

\* C1: Key(c) == Parameter(k) is true exactly when c is a member of k's code
\* sequence, Parameter(k) == Key(c) gives the same boolean, and Key(a) == Key(b)
\* is true exactly when a = b.
C1_KeyParameterEquality ==
    returned("eq") =>
        /\ (call.lhs.tag = "Key" /\ call.rhs.tag = "Parameter") =>
              /\ call.out = Ok(call.lhs.code \in members(call.rhs.param))
              /\ eq(call.rhs, call.lhs) = call.out
        /\ (call.lhs.tag = "Parameter" /\ call.rhs.tag = "Key") =>
              /\ call.out = Ok(call.rhs.code \in members(call.lhs.param))
              /\ eq(call.rhs, call.lhs) = call.out
        /\ (call.lhs.tag = "Key" /\ call.rhs.tag = "Key") =>
              call.out = Ok(call.lhs.code = call.rhs.code)

C1_Witness ==
    /\ returned("eq")
    /\ call.lhs = Parameter("DigitKey")
    /\ call.rhs = Key(4)
    /\ call.out = Ok(TRUE)

\* C2: comparing two Parameter values, of any two kinds, never yields a boolean:
\* the comparison ends in a panic.
C2_ParameterPairFailsFast ==
    (returned("eq") /\ call.lhs.tag = "Parameter" /\ call.rhs.tag = "Parameter") =>
        ~call.out.ok

C2_Witness ==
    /\ returned("eq")
    /\ call.lhs = Parameter("DigitKey")
    /\ call.rhs = Parameter("DigitKey")
    /\ ~call.out.ok

\* C3: value(k, code) is Some exactly for the codes of keys(k), None for every
\* other code, and no two distinct codes of keys(k) get the same ordinal.
C3_ParameterBijection ==
    returned("value") =>
        /\ (call.out # None) <=> (call.key \in members(call.self))
        /\ \A c \in members(call.self) :
              (call.key \in members(call.self) /\ c # call.key) =>
                  value(call.self, c) # call.out

C3_Witness ==
    /\ returned("value")
    /\ call.self = "FunctionKey"
    /\ call.key = 87
    /\ call.out = Some(11)

\* C4: the ordinals are the visible labels of the registry: value(DigitKey, code
\* of Digit<n>) = n for n in 0..9, value(FunctionKey, code of F<n>) = n for n in
\* 1..12, and keys(DigitKey), keys(FunctionKey) hold exactly those codes.
C4_OrdinalsMatchRegistryLabels ==
    returned("value") =>
        /\ \A n \in 0 .. 9 :
              (call.self = "DigitKey"
                  /\ call.key = code_of_entry(ShippedTable, "Digit" \o ToString(n)))
                  => call.out = Some(n)
        /\ \A n \in 1 .. 12 :
              (call.self = "FunctionKey"
                  /\ call.key = code_of_entry(ShippedTable, "F" \o ToString(n)))
                  => call.out = Some(n)
        /\ members("DigitKey") =
              {code_of_entry(ShippedTable, "Digit" \o ToString(n)) : n \in 0 .. 9}
        /\ members("FunctionKey") =
              {code_of_entry(ShippedTable, "F" \o ToString(n)) : n \in 1 .. 12}

C4_Witness ==
    /\ returned("value")
    /\ call.self = "FunctionKey"
    /\ call.key = code_of_entry(ShippedTable, "F12")
    /\ call.out = Some(12)

\* The aliases of a definition, primary included, and their spellings.
alias_set(k) == {aliases(k)[j] : j \in 1 .. Len(aliases(k))}
spelling_set(k) == {KeyIdentifier_to_string(a) : a \in alias_set(k)}

aliases_disjoint(table) ==
    \A i \in 1 .. Len(table), j \in 1 .. Len(table) :
        i # j => alias_set(table[i]) \cap alias_set(table[j]) = {}

spellings_disjoint(table) ==
    \A i \in 1 .. Len(table), j \in 1 .. Len(table) :
        i # j => spelling_set(table[i]) \cap spelling_set(table[j]) = {}

\* The alias a discriminant names when the lookup is directed by its type.
typed_alias(a) ==
    CASE a.d = "Str" -> Ident(a.s)
      [] a.d = "Char" -> LitChar(a.c)
      [] a.d = "Int" -> LitInt(a.i)

\* C5: in the registry of the keycodes! table no alias (identifier, char or
\* integer, the primary name included) belongs to two entries, nor does the
\* spelling of one; so every alias looked up under its own type resolves to its
\* own entry.
C5_ShippedAliasesDisjoint ==
    (build = "ok" /\ defs = ShippedTable) =>
        /\ aliases_disjoint(defs)
        /\ spellings_disjoint(defs)
        /\ returned("lookup_const") =>
              \A i \in 1 .. Len(defs) :
                  typed_alias(call.a) \in alias_set(defs[i]) =>
                      call.out = Some(primary(defs[i]).text)

C5_Witness ==
    /\ build = "ok"
    /\ defs = ShippedTable
    /\ returned("lookup_const")
    /\ call.a = Discrim_Str("Logo")
    /\ call.out = Some("LeftMeta")

\* C6: keycodes! fails whenever a definition adds an alias that already belongs
\* to another entry: no registry is built in which two entries share an alias.
C6_ConstructionRejectsReusedAlias ==
    build = "ok" => aliases_disjoint(defs)

\* C7 as claimed: a string discriminant matches identifier aliases only, a char
\* discriminant char aliases only, an integer discriminant integer aliases only.
C7_LookupTypeDirected ==
    (returned("lookup_const") /\ call.out # None) =>
        \E i \in 1 .. Len(defs) :
            /\ primary(defs[i]).text = call.out[1]
            /\ typed_alias(call.a) \in alias_set(defs[i])

\* Whether definition k has an alias the discriminant matches: a char or integer
\* alias equal to it, or for a string an alias of any kind spelled like it.
matches(k, a) ==
    CASE a.d = "Str" -> a.s \in spelling_set(k)
      [] a.d = "Char" -> LitChar(a.c) \in alias_set(k)
      [] a.d = "Int" -> LitInt(a.i) \in alias_set(k)

\* C7 amended: a char discriminant matches char aliases only and an integer
\* discriminant integer aliases only, while a string discriminant matches the
\* spelling of an alias of any kind; the lookup is None exactly when no entry
\* has such an alias, and otherwise returns an entry that has one.
C7_LookupByTypeOrSpelling ==
    returned("lookup_const") =>
        LET holders == {i \in 1 .. Len(defs) : matches(defs[i], call.a)}
        IN  /\ (call.out = None) <=> (holders = {})
            /\ call.out # None =>
                  \E i \in holders : primary(defs[i]).text = call.out[1]

\* The string "1" finds Digit1, whose only alias spelled 1 is the char '1'.
C7_Witness ==
    /\ defs = ShippedTable
    /\ returned("lookup_const")
    /\ call.a = Discrim_Str("1")
    /\ call.out = Some("Digit1")

\* The top-level token of the i-th term of a parsed attribute input.
term_token(i) == attrs[2 * i - 1]

\* The expansion got as far as parsing the attribute input.
attrs_parsed == pc \notin {"idle", "failed"} \/ (pc = "failed" /\ keybind # <<>>)

lowered == pc \in {"emitted", "compiled", "rejected"}

\* C8: a bare top-level integer n parses as the Name term of the literal n and
\* is lowered as a lookup of the integer alias n, never as the raw code n; a
\* bracketed [n] parses as the Code term n and is lowered as the literal n,
\* with no lookup.  Once compiled, the bare n is the key of the entry that has
\* the integer alias n.
C8_BareIntegerIsNameBracketedIsCode ==
    attrs_parsed =>
        \A i \in 1 .. Len(keybind) :
            /\ term_token(i).kind = "LitInt" =>
                  /\ keybind[i] = Name(LitInt(term_token(i).value))
                  /\ lowered =>
                        /\ emitted[i].gen = "Key::lookup_const(..).expect(..).into()"
                        /\ emitted[i].a = Discrim_Int(term_token(i).value)
                  /\ pc = "compiled" =>
                        \E e \in 1 .. Len(defs) :
                            /\ LitInt(term_token(i).value) \in alias_set(defs[e])
                            /\ default_keys[i] = Key(code(defs[e]))
            /\ (term_token(i).kind = "Bracket") =>
                  /\ keybind[i] = Code(term_token(i).inside[1].value)
                  /\ lowered => emitted[i] = [gen |-> "<int>", int |-> keybind[i].int]
                  /\ pc = "compiled" => default_keys[i] = Key(keybind[i].int)

\* 1 + [111] against the table whose Digit1 has the integer alias 1: the bare 1
\* is Digit1's code 2, the bracketed 111 is the code 111.
C8_Witness ==
    /\ pc = "compiled"
    /\ defs = DocExampleTable
    /\ attrs = joined(<<LitInt(1), Bracket(<<LitInt(111)>>)>>)
    /\ keybind = <<Name(LitInt(1)), Code(111)>>
    /\ default_keys = <<Key(2), Key(111)>>

\* C9: with the shipped table, Ctrl+1 lowers and compiles to
\* [Key(29), Key(2)].
C9_CtrlPlusOneLowersToDigit1 ==
    (/\ defs = ShippedTable
     /\ attrs = joined(<<Ident("Ctrl"), LitInt(1)>>)
     /\ pc \in {"compiled", "rejected"})
        => (pc = "compiled" /\ default_keys = <<Key(29), Key(2)>>)

\* The entries of the table that have the identifier alias n.
entries_named(n) == {e \in 1 .. Len(defs) : Ident(n) \in alias_set(defs[e])}

\* The i-th term is an identifier alias of the registry, or a bracketed code.
resolvable(i) ==
    \/ keybind[i].k = "Code"
    \/ keybind[i].k = "Name" /\ keybind[i].disc.kind = "Ident"
          /\ entries_named(keybind[i].disc.text) # {}

\* C10: a term that is an identifier alias N (primary name included) of an
\* entry with code c is lowered to AvKey::Key(c); a term [c] is lowered to
\* AvKey::Key(c) as the literal c, with no lookup, whether or not the table has
\* c; and neither kind of term makes the generated constant fail to compile.
C10_RoundTripLowering ==
    /\ pc = "compiled" =>
          \A i \in 1 .. Len(keybind) :
              /\ (keybind[i].k = "Name" /\ keybind[i].disc.kind = "Ident") =>
                    \A e \in entries_named(keybind[i].disc.text) :
                        default_keys[i] = Key(code(defs[e]))
              /\ keybind[i].k = "Code" =>
                    /\ emitted[i] = [gen |-> "<int>", int |-> keybind[i].int]
                    /\ default_keys[i] = Key(keybind[i].int)
    /\ pc = "rejected" =>
          \A i \in 1 .. Len(keybind) : resolvable(i) => diag[i].msg = "ok"

\* Ctrl + [111] against the shipped table: the alias Ctrl of LeftCtrl is code
\* 29, and 111 is taken as it is.
C10_Witness ==
    /\ pc = "compiled"
    /\ defs = ShippedTable
    /\ attrs = joined(<<Ident("Ctrl"), Bracket(<<LitInt(111)>>)>>)
    /\ default_keys = <<Key(29), Key(111)>>
    /\ \E c \in KeyCodes : \A e \in 1 .. Len(defs) : code(defs[e]) # c

\* A token sequence that is one term of the grammar: a name (identifier,
\* integer or char), [integer] or {identifier}.
is_term(t) ==
    \/ t.kind \in {"Ident", "LitInt", "LitChar"}
    \/ t.kind = "Bracket" /\ Len(t.inside) = 1 /\ t.inside[1].kind = "LitInt"
    \/ t.kind = "Brace" /\ Len(t.inside) = 1 /\ t.inside[1].kind = "Ident"

\* term ('+' term)*
is_expr(input) ==
    /\ Len(input) % 2 = 1
    /\ \A i \in 1 .. Len(input) :
          IF i % 2 = 1 THEN is_term(input[i]) ELSE input[i] = Punct("+")

\* The expansion stopped at the parse of the attribute input.
parse_rejected == pc = "failed" /\ keybind = <<>>

\* C11: the attribute input is accepted exactly when it is term ('+' term)*,
\* and then has one parsed term per term; the empty input, a trailing '+' and
\* tokens after the last term are rejected with an error and leave no
\* keybind.
C11_ParseAcceptsExactlyTheGrammar ==
    pc # "idle" =>
        /\ attrs_parsed <=> is_expr(attrs)
        /\ attrs_parsed => 2 * Len(keybind) - 1 = Len(attrs)
        /\ ~attrs_parsed <=> parse_rejected
        /\ parse_rejected =>
              /\ diag # <<>>
              /\ emitted = <<>> /\ default_keys = <<>> /\ assignments = <<>>
        /\ (attrs = <<>> \/ attrs[Len(attrs)] = Punct("+")) => parse_rejected
        /\ (\E i \in 1 .. Len(attrs) - 1 :
                attrs[i] # Punct("+") /\ attrs[i + 1] # Punct("+")) => parse_rejected

\* Ctrl + is rejected.
C11_Witness ==
    /\ parse_rejected
    /\ attrs = <<Ident("Ctrl"), Punct("+")>>
    /\ diag # <<>>

\* C12: when the parse of the attribute input stops at a non-integer inside
\* [...] or a non-identifier inside {...}, the message the user gets is the
\* key-code message, respectively the key-parameter message, of the term
\* parser, not the message for a malformed list.
C12_MalformedGroupMessagesSurface ==
    (/\ parse_rejected
     /\ \A i \in 1 .. Len(attrs) :
            attrs[i].kind \in {"Bracket", "Brace"} => attrs[i].inside # <<>>
     /\ parse_keybind(attrs).err \in {"Expected a key code here",
                                      "Expected a key parameter here"})
        => diag = <<[msg |-> parse_keybind(attrs).err]>>

\* The positions of the {tag} terms whose tag the catalog lacks.
unknown_positions ==
    {i \in 1 .. Len(keybind) :
        keybind[i].k = "Parameter" /\ keybind[i].ident \notin DOMAIN KEY_PARAMS}

\* The tag validation has run.
names_checked == attrs_parsed /\ pc \notin {"parsed", "fn_parsed"}

unknown_tag_errors == {j \in 1 .. Len(diag) : diag[j].msg = "Unknown key parameter"}

\* C13: the tag validation reports one error per {tag} term whose tag is not in
\* the catalog, all of them together and in the order of the terms, and none
\* exactly when every tag resolves.
C13_OneErrorPerUnknownTag ==
    names_checked =>
        /\ Cardinality(unknown_tag_errors) = Cardinality(unknown_positions)
        /\ unknown_positions = {} <=> unknown_tag_errors = {}
        /\ unknown_positions # {} =>
              /\ pc = "failed"
              /\ unknown_tag_errors = 1 .. Len(diag)
              /\ {diag[j].tag : j \in 1 .. Len(diag)}
                    = {keybind[i].ident : i \in unknown_positions}
              /\ \A j \in 1 .. Len(diag), m \in 1 .. Len(diag) :
                    (j < m /\ diag[j].tag # diag[m].tag) =>
                        \E i \in unknown_positions, n \in unknown_positions :
                            i < n /\ keybind[i].ident = diag[j].tag
                                  /\ keybind[n].ident = diag[m].tag

\* {q} + {d} + {z}: exactly the two errors for q and z.
C13_Witness ==
    /\ pc = "failed"
    /\ attrs = joined(<<Brace(<<Ident("q")>>), Brace(<<Ident("d")>>), Brace(<<Ident("z")>>)>>)
    /\ diag = <<[msg |-> "Unknown key parameter", tag |-> "q"],
                [msg |-> "Unknown key parameter", tag |-> "z"]>>

\* The tags of the expression and the declared key-parameter arguments.
tags_present == parameters_present(keybind)
declared_args == typed_path_args(sig)

\* The signature breaks arity or type correspondence.
signature_violation ==
    \/ Len(declared_args) # Len(tags_present)
    \/ \E i \in 1 .. Len(tags_present) :
          i <= Len(declared_args) /\ declared_args[i].ty.ident # Some(tags_present[i])

\* Every validation of the signature has run.
validated == names_checked /\ pc \notin {"names_valid", "sign_valid"}

P_terms == Len(tags_present)
A_args == Len(declared_args)

\* The first declared arguments have the types of the tags, as far as both go.
types_correspond ==
    \A i \in 1 .. P_terms :
        i <= A_args => declared_args[i].ty.ident = Some(tags_present[i])

\* C15: with more declared arguments than {tag} terms (A > P, here with P >= 1),
\* every tag known and the first P types as the tags, validation fails and the
\* errors are exactly the declared arguments at positions P .. A-1, never one
\* at a position below P.
C15_ExcessArgumentsBeyondP ==
    (/\ validated /\ unknown_positions = {} /\ types_correspond
     /\ P_terms >= 1 /\ A_args > P_terms) =>
        /\ pc = "failed"
        /\ Len(diag) = A_args - P_terms
        /\ {diag[j].arg : j \in 1 .. Len(diag)} = P_terms .. A_args - 1

\* The error for the tag at (1-based) position i having no declared argument.
missing_error(i) ==
    [msg |-> "Expected key parameter in function declaration",
     expected |-> tags_present[i], key_param |-> i]

missing_errors ==
    {j \in 1 .. Len(diag) : diag[j].msg = "Expected key parameter in function declaration"}

mismatches ==
    {i \in 1 .. P_terms :
        i <= A_args /\ declared_args[i].ty.ident # Some(tags_present[i])}

mismatch_error(i) ==
    [msg |-> "Expected key parameter here, got",
     expected |-> tags_present[i], got |-> declared_args[i].ty.ident[1]]

C19_AssignmentPlanInDeclarationOrder ==
    (validated /\ unknown_positions = {} /\ A_args = P_terms /\ mismatches = {}) =>
        /\ pc # "failed"
        /\ Len(assignments) = P_terms
        /\ \A i \in 1 .. P_terms :
              /\ assignments[i].arg = declared_args[i].pat.text
              /\ assignments[i].index = i - 1

\* Ctrl + {d} + {f} against (a: d, b: f): a is ordinal 0 and b ordinal 1, and
\* the keys are Ctrl's code and the two parameters.
C19_Witness ==
    /\ pc = "compiled"
    /\ defs = ShippedTable
    /\ attrs = joined(<<Ident("Ctrl"), Brace(<<Ident("d")>>), Brace(<<Ident("f")>>)>>)
    /\ assignments = <<[arg |-> "a", index |-> 0], [arg |-> "b", index |-> 1]>>
    /\ default_keys = <<Key(29), Parameter("DigitKey"), Parameter("FunctionKey")>>

\* The keys a term may be lowered to: the code of an entry that has the name,
\* char or integer as an alias of that kind, the code itself, or the parameter
\* of the tag.
lowerings(term) ==
    CASE term.k = "Name" ->
            {Key(code(defs[e])) : e \in {n \in 1 .. Len(defs) : term.disc \in alias_set(defs[n])}}
      [] term.k = "Code" -> {Key(term.int)}
      [] term.k = "Parameter" ->
            {Parameter(KEY_PARAMS[t]) : t \in {term.ident} \cap DOMAIN KEY_PARAMS}

\* C20: once emitted, the default keys have one element per term of the
\* expression, in the order of the terms: every element is the lowering of the
\* term at its position, and a repeated term is lowered again.
C20_LoweringTermByTermInOrder ==
    /\ lowered => Len(emitted) = Len(keybind)
    /\ pc = "compiled" =>
          /\ Len(default_keys) = Len(keybind)
          /\ \A i \in 1 .. Len(keybind) : default_keys[i] \in lowerings(keybind[i])

\* [111] + Ctrl + [111]: three keys, the code 111 twice, Ctrl between them.
C20_Witness ==
    /\ pc = "compiled"
    /\ defs = ShippedTable
    /\ attrs = joined(<<Bracket(<<LitInt(111)>>), Ident("Ctrl"), Bracket(<<LitInt(111)>>)>>)
    /\ default_keys = <<Key(111), Key(29), Key(111)>>

\* C21: keys() of a value of the generated struct is its override when it has
\* one, an empty one included, and default_keys() otherwise; default_keys() is
\* the compiled constant whatever the override is.
C21_KeysPreferOverride ==
    /\ returned("keys") =>
          /\ instance # None
          /\ instance[1] # None => call.out = instance[1][1]
          /\ instance[1] = None => call.out = default_keys
    /\ returned("default_keys") =>
          /\ call.out = default_keys
          /\ Len(call.out) = Len(keybind)

\* A value with an empty override on a two-key binding: keys() is empty.
C21_Witness ==
    /\ returned("keys")
    /\ instance = Some(Some(<<>>))
    /\ Len(default_keys) = 2
    /\ call.out = <<>>

\* C22: with the shipped table, Ctrl+Alt+Del on a callback with no
\* key-parameter argument compiles, and its default keys are three concrete
\* keys.
C22_CtrlAltDelCompiles ==
    (/\ defs = ShippedTable
     /\ attrs = joined(<<Ident("Ctrl"), Ident("Alt"), Ident("Del")>>)
     /\ A_args = 0
     /\ pc \in {"compiled", "rejected"})
        => /\ pc = "compiled"
           /\ Len(default_keys) = 3
           /\ \A i \in 1 .. 3 : default_keys[i].tag = "Key"

\* C23: the tags are exactly "d" for DigitKey and "f" for FunctionKey: the
\* macro's KEY_PARAMS and the two runtime conversions accept the same tags and
\* give the same kind, each rejects every other string, and a kind's tag
\* string converts back to the kind.
C23_TagVocabularyAgrees ==
    /\ returned("try_from") =>
          /\ call.str = call.string
          /\ call.str.ok <=> call.tag \in {"d", "f"}
          /\ call.macro # None <=> call.str.ok
          /\ call.str.ok => call.macro = Some(call.str.val)
          /\ call.tag = "d" => call.str = Ok("DigitKey")
          /\ call.tag = "f" => call.str = Ok("FunctionKey")
          /\ ~call.str.ok => call.str = Err(call.tag)
    /\ returned("to_string") =>
          /\ call.out \in {"d", "f"}
          /\ call.back = Ok(call.self)

\* "f" is FunctionKey for the conversions and for the macro.
C23_Witness ==
    /\ returned("try_from")
    /\ call.tag = "f"
    /\ call.str = Ok("FunctionKey")
    /\ call.macro = Some("FunctionKey")

\* C24: the string lookup of the primary name or of an identifier alias of an
\* entry returns that entry, never None and never another entry, and the
\* result converted to an AvKey is Key(code of the entry).
C24_StringLookupOfNameReturnsEntry ==
    returned("lookup") =>
        \A i \in 1 .. Len(defs) :
            Ident(call.a.s) \in alias_set(defs[i]) =>
                /\ call.out = Some(primary(defs[i]).text)
                /\ call.into = Ok(Key(code(defs[i])))

\* "LeftCtrl" is the entry LeftCtrl, code 29.
C24_Witness ==
    /\ returned("lookup")
    /\ defs = ShippedTable
    /\ call.a = Discrim_Str("LeftCtrl")
    /\ call.out = Some("LeftCtrl")
    /\ call.into = Ok(Key(29))

\* C25: a {tag} term is lowered only after the tag validation has passed for
\* the whole expression: the expansion never gets past the validation with a
\* tag the catalog lacks, whatever the signature declares, so the unwrap of
\* the catalog lookup in to_lookup never panics, and every {tag} term is
\* lowered to the parameter of its tag.
C25_LoweringOnlyAfterTagValidation ==
    /\ pc # "panicked"
    /\ pc \in {"names_valid", "sign_valid", "assigned", "emitted", "compiled", "rejected"}
          => unknown_positions = {}
    /\ lowered =>
          \A i \in 1 .. Len(keybind) :
              keybind[i].k = "Parameter" =>
                  /\ keybind[i].ident \in DOMAIN KEY_PARAMS
                  /\ emitted[i] = [gen |-> "<path>", path |-> KEY_PARAMS[keybind[i].ident]]

\* {d} + {f} is lowered, after validation, to the two parameters.
C25_Witness ==
    /\ pc = "emitted"
    /\ attrs = joined(<<Brace(<<Ident("d")>>), Brace(<<Ident("f")>>)>>)
    /\ emitted = <<[gen |-> "<path>", path |-> "DigitKey"],
                   [gen |-> "<path>", path |-> "FunctionKey"]>>

C27_EqTransitive ==
    (returned("eq_chain") /\ call.xy.ok /\ call.yz.ok /\ call.xz.ok) =>
        ((call.xy.val /\ call.yz.val) => call.xz.val)

====
